---- MODULE Spec2Model ----
(***************************************************************************)
(* A model of the memory containers, the round-robin connection ring and   *)
(* the reply encoder of ucall (src/datastructures.hpp, src/shared.hpp,     *)
(* src/helpers/reply.hpp).  Each component has its own specification over  *)
(* the shared variables; the variables of the other components stay at     *)
(* their initial values.                                                   *)
(***************************************************************************)
EXTENDS Integers, Sequences, FiniteSets, TLC

\* ------------------------------------------------------------------ bounds
\* Largest capacity passed to round_robin_gt::alloc.
MaxCapacity == 3
\* Connection descriptors handed to push_ahead are 1..MaxDescriptor.
MaxDescriptor == 2
\* Largest value the caller lets a slot's skipped_cycles counter reach.
MaxSkipped == 1
\* The value of the counters of a slot of freshly malloc'ed (indeterminate) memory,
\* when they are not zero.
GarbageCount == 5
\* Largest capacity passed to pool_gt::reserve.
MaxPoolCapacity == 3
\* Longest request id.
MaxIdLen == 1
\* Longest result body.
MaxBodyLen == 2
\* Longest error message, beside "Method not found".
MaxMessageLen == 2
\* Content lengths 0 .. MaxSmallLength are patched, beside a few long ones.
MaxSmallLength == 12
\* Largest capacity an Array is grown to.
MaxArrayCapacity == 3
\* Largest size a Buffer is resized to.
MaxBufferSize == 3
\* Blocks the allocator can hand to one Buffer before it runs out of memory.
MaxBlocks == 3

\* --------------------------------------------------------------- constants
\* shared.hpp: static constexpr descriptor_t bad_descriptor_k{-1};
bad_descriptor_k == -1
\* reply.hpp: static constexpr std::size_t iovecs_for_content_k = 5;
iovecs_for_content_k == 5
\* reply.hpp: static constexpr std::size_t iovecs_for_error_k = 7;
iovecs_for_error_k == 7
\* reply.hpp: static constexpr std::size_t http_header_size_k = 78;
http_header_size_k == 78
\* reply.hpp: static constexpr std::size_t http_header_length_offset_k = 33;
http_header_length_offset_k == 33
\* reply.hpp: static constexpr std::size_t http_header_length_capacity_k = 9;
http_header_length_capacity_k == 9

VARIABLES
    \* round_robin_gt
    circle_,        \* slot index -> connection record; <<>> while circle_ is null
    count_,
    capacity_,
    idx_newest_,
    idx_oldest_,
    idx_to_poll_,
    \* what the caller of the ring observes
    ring_op,        \* the last member function called ("alloc_failed": alloc
                    \* returned false)
    ring_ret,       \* the last value a call returned: a descriptor (drop_tail) or
                    \* the index of the slot the returned reference refers to
                    \* (poll, tail, head)
    ring_arg,       \* the descriptor the last call was given (push_ahead), else 0
    cursor_was,     \* idx_to_poll_ as the last call found it
    cycle,          \* the poll() calls since the last push_ahead/drop_tail, at most
                    \* the last count_ of them: <<[from, got], ...>>
    pending,        \* the descriptors given to push_ahead and not yet returned by
                    \* drop_tail, oldest first
    \* pool_gt
    pool_capacity_,
    free_count_,
    elements_,      \* TRUE when elements_ points at a block
    free_offsets_,  \* index -> offset; <<>> while there is no block
    \* what the caller of the pool observes and holds
    pool_op,
    pool_arg,       \* the n of the last reserve(n)
    pool_ptr,       \* the pointer alloc() last returned or release() last got
    held,           \* the offsets of the elements the caller has allocated
    alloc_calls,    \* alloc() calls since reserve(), counted up to capacity + 1
    released_any,   \* whether release() was called since reserve()
    exhausted,      \* whether alloc() returned nullptr since reserve()
    \* reply encoder
    buffers,        \* the caller's struct iovec array
    reply_op,
    reply_ret,      \* the size_t the last call returned
    reply_in,       \* the arguments of the last fill_with_content call
    output,         \* the caller's contiguous output buffer
    \* reply encoder, error replies
    error_buffers,  \* the caller's struct iovec array
    error_op,
    error_ret,      \* the size_t the last call returned
    error_in,       \* the arguments of the last fill_with_error call
    \* HTTP header
    headers,        \* the caller's header buffer, byte offset -> character
    header_op,
    header_ret,     \* the bool the last call returned
    header_in,      \* the content_len of the last call
    header_was,     \* the buffer before the last call
    header_failed,  \* TRUE once a call on this buffer has returned false
    \* array_gt
    array_elements_,    \* elements_: the address of the block, NullAddress if none
    array_count_,       \* count_
    array_capacity_,    \* capacity_
    array_memory,       \* the content of the block, index -> element
    array_op,
    array_ret,          \* the bool the last call returned
    array_arg,          \* the n of the last call
    array_src,          \* the elements passed to the last append_n
    \* buffer_gt
    buffer_elements_,   \* elements_: the address of the block, NullAddress if none
    buffer_capacity_,   \* capacity_
    buffer_heap,        \* the blocks malloc returned that were not freed
    buffer_freed,       \* the blocks that were freed
    buffer_op,
    buffer_ret,         \* the bool the last call returned
    buffer_arg          \* the n of the last call

ring_vars == <<circle_, count_, capacity_, idx_newest_, idx_oldest_, idx_to_poll_,
               ring_op, ring_ret, ring_arg, cursor_was, cycle, pending>>

pool_vars == <<pool_capacity_, free_count_, elements_, free_offsets_,
               pool_op, pool_arg, pool_ptr, held, alloc_calls, released_any, exhausted>>

reply_vars == <<buffers, reply_op, reply_ret, reply_in, output>>

error_vars == <<error_buffers, error_op, error_ret, error_in>>

header_vars == <<headers, header_op, header_ret, header_in, header_was, header_failed>>

array_vars == <<array_elements_, array_count_, array_capacity_, array_memory,
                array_op, array_ret, array_arg, array_src>>

buffer_vars == <<buffer_elements_, buffer_capacity_, buffer_heap, buffer_freed,
                 buffer_op, buffer_ret, buffer_arg>>

vars == <<ring_vars, pool_vars, reply_vars, error_vars, header_vars, array_vars,
          buffer_vars>>

\* ------------------------------------------------------------ round_robin_gt

\* The fields of element_at that round_robin_gt touches.
Connection(d, s, c, i) ==
    [descriptor |-> d, skipped_cycles |-> s, copies_count |-> c, iovecs_count |-> i]

\* What std::malloc'ed memory may hold before anything is written to it: a zeroed
\* page, or leftovers of an earlier use of the block.
GarbageSlots ==
    { Connection(0, 0, 0, 0),
      Connection(bad_descriptor_k, GarbageCount, GarbageCount, GarbageCount) }

\* Member initialisers: every field is value-initialised ({}).
RingInit ==
    /\ circle_ = <<>>
    /\ count_ = 0
    /\ capacity_ = 0
    /\ idx_newest_ = 0
    /\ idx_oldest_ = 0
    /\ idx_to_poll_ = 0
    /\ ring_op = "init"
    /\ ring_ret = bad_descriptor_k
    /\ ring_arg = 0
    /\ cursor_was = 0
    /\ cycle = <<>>
    /\ pending = <<>>

\* alloc(n): malloc may fail (nothing changes); on success circle_ points at n slots
\* of indeterminate content and capacity_ = n.  The ring is allocated once.
alloc ==
    \E n \in 1 .. MaxCapacity, ok \in BOOLEAN :
        /\ ring_op' = (IF ok THEN "alloc" ELSE "alloc_failed")
        /\ cursor_was' = idx_to_poll_
        /\ ring_arg' = 0
        /\ IF ok
           THEN /\ capacity_ = 0
                /\ \E g \in GarbageSlots : circle_' = [i \in 0 .. n - 1 |-> g]
                /\ capacity_' = n
           ELSE UNCHANGED <<circle_, capacity_>>
        /\ UNCHANGED <<count_, idx_newest_, idx_oldest_, idx_to_poll_, ring_ret, cycle,
                     pending>>

\* A drop_tail() that leaves the poll cursor where it is.
DropTailPoll_Stays ==
    idx_to_poll_

\* The index idx_to_poll_ gets in drop_tail().
DropTailPoll ==
    IF idx_to_poll_ = idx_oldest_ THEN (idx_to_poll_ + 1) % capacity_ ELSE idx_to_poll_

\* A drop_tail() that wipes the whole record.
DroppedSlot_Wiped(old) ==
    Connection(bad_descriptor_k, 0, 0, 0)

\* The slot at idx_oldest_ after drop_tail(): std::exchange writes the sentinel into
\* its descriptor and nothing else.
DroppedSlot(old) ==
    [old EXCEPT !.descriptor = bad_descriptor_k]

\* drop_tail(); the caller checks size() > 0.
drop_tail ==
    /\ capacity_ > 0
    /\ count_ > 0
    /\ ring_op' = "drop_tail"
    /\ cursor_was' = idx_to_poll_
    /\ ring_arg' = 0
    /\ ring_ret' = circle_[idx_oldest_].descriptor
    /\ circle_' = [circle_ EXCEPT ![idx_oldest_] = DroppedSlot(@)]
    /\ idx_to_poll_' = DropTailPoll
    /\ idx_oldest_' = (idx_oldest_ + 1) % capacity_
    /\ count_' = count_ - 1
    /\ cycle' = <<>>
    /\ pending' = IF pending = <<>> THEN pending ELSE Tail(pending)
    /\ UNCHANGED <<capacity_, idx_newest_>>

\* A push_ahead() that does not reset response.iovecs_count.
PushedSlot_KeepsIovecs(old, new_) ==
    [old EXCEPT !.descriptor = new_, !.skipped_cycles = 0, !.copies_count = 0]

\* A push_ahead() that does not store the descriptor.
PushedSlot_KeepsDescriptor(old, new_) ==
    [old EXCEPT !.skipped_cycles = 0, !.copies_count = 0, !.iovecs_count = 0]

\* The record push_ahead(new_) leaves in the slot at idx_newest_.
PushedSlot(old, new_) ==
    [old EXCEPT !.descriptor = new_, !.skipped_cycles = 0,
                !.copies_count = 0, !.iovecs_count = 0]

\* A push_ahead() that advances idx_newest_ without wrapping.
PushNewest_NoWrap ==
    idx_newest_ + 1

\* The index idx_newest_ gets in push_ahead().
PushNewest ==
    (idx_newest_ + 1) % capacity_

\* push_ahead(new_); the caller checks size() < capacity().
push_ahead ==
    \E new_ \in 1 .. MaxDescriptor :
        /\ capacity_ > 0
        /\ count_ < capacity_
        /\ ring_op' = "push_ahead"
        /\ cursor_was' = idx_to_poll_
        /\ ring_arg' = new_
        /\ circle_' = [circle_ EXCEPT ![idx_newest_] = PushedSlot(@, new_)]
        /\ idx_newest_' = PushNewest
        /\ count_' = count_ + 1
        /\ cycle' = <<>>
        /\ pending' = Append(pending, new_)
        /\ UNCHANGED <<capacity_, idx_oldest_, idx_to_poll_, ring_ret>>

\* The index idx_to_poll_ gets in poll().
PollNext ==
    LET idx_to_poll_following == (idx_to_poll_ + 1) % count_
    IN  IF idx_to_poll_following = idx_newest_ THEN idx_oldest_ ELSE idx_to_poll_following

\* The slot the reference returned by poll() refers to: circle_[idx_to_poll_], read
\* after the cursor has moved (connection_ptr is computed and not used).
PollResult == PollNext

\* The window of the last count_ polls.
Remember(seq, e) ==
    IF Len(seq) < count_ THEN Append(seq, e) ELSE Append(Tail(seq), e)

\* poll(); the caller checks size() > 0.
poll ==
    /\ capacity_ > 0
    /\ count_ > 0
    /\ ring_op' = "poll"
    /\ cursor_was' = idx_to_poll_
    /\ ring_arg' = 0
    /\ idx_to_poll_' = PollNext
    /\ ring_ret' = PollResult
    /\ cycle' = Remember(cycle, [from |-> idx_to_poll_, got |-> PollResult])
    /\ UNCHANGED pending
    /\ UNCHANGED <<circle_, count_, capacity_, idx_newest_, idx_oldest_>>

\* tail(): a reference to circle_[idx_oldest_].
TailResult == idx_oldest_

tail ==
    /\ capacity_ > 0
    /\ count_ > 0
    /\ ring_op' = "tail"
    /\ cursor_was' = idx_to_poll_
    /\ ring_arg' = 0
    /\ ring_ret' = TailResult
    /\ UNCHANGED <<circle_, count_, capacity_, idx_newest_, idx_oldest_, idx_to_poll_, cycle,
                 pending>>

\* head(): a reference to circle_[idx_newest_ - 1].  idx_newest_ is a std::size_t:
\* at idx_newest_ = 0 the index is SIZE_MAX and the access is out of bounds
\* (undefined behaviour): the reference may refer to any slot or, as the address
\* arithmetic wraps, to the memory before the array (index -1).
HeadResults ==
    IF idx_newest_ > 0 THEN {idx_newest_ - 1} ELSE (0 .. capacity_ - 1) \cup {idx_newest_ - 1}

head ==
    /\ capacity_ > 0
    /\ count_ > 0
    /\ ring_op' = "head"
    /\ cursor_was' = idx_to_poll_
    /\ ring_arg' = 0
    /\ \E r \in HeadResults : ring_ret' = r
    /\ UNCHANGED <<circle_, count_, capacity_, idx_newest_, idx_oldest_, idx_to_poll_, cycle,
                 pending>>

\* The reactor counts a skipped scheduling turn in the record of the oldest
\* connection, which it got from tail().
skip_turn ==
    /\ ring_op = "tail"
    /\ ring_ret \in DOMAIN circle_
    /\ circle_[ring_ret].descriptor # bad_descriptor_k
    /\ circle_[ring_ret].skipped_cycles < MaxSkipped
    /\ circle_' = [circle_ EXCEPT ![ring_ret].skipped_cycles = @ + 1]
    /\ ring_op' = "skip_turn"
    /\ cursor_was' = idx_to_poll_
    /\ ring_arg' = 0
    /\ UNCHANGED <<count_, capacity_, idx_newest_, idx_oldest_, idx_to_poll_, ring_ret, cycle,
                     pending>>

\* ------------------------------------------------------------------ pool_gt

\* A pointer to an element of the pool is elements_ + offset: <<offset>>.
ElementAt(offset) == <<offset>>
\* nullptr
NullPtr == <<>>

\* Member initialisers: every field is value-initialised ({}).
PoolInit ==
    /\ pool_capacity_ = 0
    /\ free_count_ = 0
    /\ elements_ = FALSE
    /\ free_offsets_ = <<>>
    /\ pool_op = "init"
    /\ pool_arg = 0
    /\ pool_ptr = NullPtr
    /\ held = {}
    /\ alloc_calls = 0
    /\ released_any = FALSE
    /\ exhausted = FALSE

\* A fill of the free-offset stack that counts down.
Iota_Descending(n) == [i \in 0 .. n - 1 |-> n - 1 - i]

\* std::iota(free_offsets_, free_offsets_ + n, 0ul)
Iota(n) == [i \in 0 .. n - 1 |-> i]

\* reserve(n): malloc may fail (nothing changes); on success the pool holds n
\* elements, all free.  The pool is reserved once.
reserve ==
    \E n \in 1 .. MaxPoolCapacity, ok \in BOOLEAN :
        /\ pool_op' = (IF ok THEN "reserve" ELSE "reserve_failed")
        /\ pool_arg' = n
        /\ IF ok
           THEN /\ ~elements_
                /\ elements_' = TRUE
                /\ free_count_' = n
                /\ pool_capacity_' = n
                /\ free_offsets_' = Iota(n)
                /\ alloc_calls' = 0
                /\ released_any' = FALSE
                /\ exhausted' = FALSE
           ELSE UNCHANGED <<elements_, free_count_, pool_capacity_, free_offsets_,
                            alloc_calls, released_any, exhausted>>
        /\ UNCHANGED <<pool_ptr, held>>

\* The pointer alloc() returns: free_count_ ? elements_ + free_offsets_[--free_count_]
\* : nullptr.
AllocResult ==
    IF free_count_ # 0 THEN ElementAt(free_offsets_[free_count_ - 1]) ELSE NullPtr

\* An alloc() that leaves the top of the free-offset stack in place.
AllocFreeCount_Stays ==
    free_count_ + 0

\* free_count_ after alloc().
AllocFreeCount ==
    IF free_count_ # 0 THEN free_count_ - 1 ELSE free_count_

\* alloc() on a reserved pool.
pool_alloc ==
    /\ elements_
    /\ pool_op' = "alloc"
    /\ pool_ptr' = AllocResult
    /\ free_count_' = AllocFreeCount
    /\ held' = held \cup { AllocResult[i] : i \in 1 .. Len(AllocResult) }
    /\ alloc_calls' = IF alloc_calls <= pool_capacity_ THEN alloc_calls + 1 ELSE alloc_calls
    /\ exhausted' = (exhausted \/ AllocResult = NullPtr)
    /\ UNCHANGED <<pool_capacity_, elements_, free_offsets_, released_any, pool_arg>>

\* A release() that writes the offset at the bottom of the free-offset stack.
ReleaseOffsets_Bottom(offset) ==
    [free_offsets_ EXCEPT ![0] = offset]

\* free_offsets_ after release(released), released = elements_ + offset.
ReleaseOffsets(offset) ==
    [free_offsets_ EXCEPT ![free_count_] = offset]

\* release(released); the caller passes a pointer that alloc() returned and that it
\* has not released since.
release ==
    \E offset \in held :
        /\ elements_
        /\ pool_op' = "release"
        /\ pool_ptr' = ElementAt(offset)
        /\ free_offsets_' = ReleaseOffsets(offset)
        /\ free_count_' = free_count_ + 1
        /\ held' = held \ {offset}
        /\ released_any' = TRUE
        /\ UNCHANGED <<pool_capacity_, elements_, alloc_calls, exhausted, pool_arg>>

\* ------------------------------------------------------------- reply encoder

\* struct iovec: iov_base is modelled by the bytes it points at.
Iovec(base, len) == [iov_base |-> base, iov_len |-> len]

\* The bytes an iovec denotes: iov_len bytes from iov_base.
IovecBytes(v) == SubSeq(v.iov_base, 1, v.iov_len)

\* R"({"jsonrpc":"2.0","id":)"
response_protocol_prefix_k ==
    << "{", "\"", "j", "s", "o", "n", "r", "p", "c", "\"", ":", "\"", "2", ".", "0",
       "\"", ",", "\"", "i", "d", "\"", ":" >>

\* R"(,"result":)"
result_separator ==
    << ",", "\"", "r", "e", "s", "u", "l", "t", "\"", ":" >>

\* R"(},)"
protocol_suffix == << "}", "," >>

\* A prefix length that is one byte short.
PrefixLen_Short == 22 - 1

\* buffers[0].iov_len = 22;
PrefixLen == 22
\* A result separator length that is one byte short.
SeparatorLen_Short == 10 - 1

\* buffers[2].iov_len = 10;
SeparatorLen == 10

\* bool to size_t in 1 + append_comma
BoolToSize(b) == IF b THEN 1 ELSE 0

\* The byte strings of at most n characters the caller passes.
Texts(alphabet, n) == UNION { [1 .. k -> alphabet] : k \in 0 .. n }

\* The request ids and the result bodies the caller passes.
RequestIds == Texts({"1", "7"}, MaxIdLen)

Bodies == Texts({"1", "7", "9"}, MaxBodyLen)

\* The five iovecs fill_with_content writes.
ContentIovecs(request_id, body, append_comma) ==
    [i \in 0 .. iovecs_for_content_k - 1 |->
        CASE i = 0 -> Iovec(response_protocol_prefix_k, PrefixLen)
          [] i = 1 -> Iovec(request_id, Len(request_id))
          [] i = 2 -> Iovec(result_separator, SeparatorLen)
          [] i = 3 -> Iovec(body, Len(body))
          [] OTHER -> Iovec(protocol_suffix, 1 + BoolToSize(append_comma))]

\* The value fill_with_content returns: the sum of the five iov_len it wrote.
ContentLength(b) ==
    b[0].iov_len + b[1].iov_len + b[2].iov_len + b[3].iov_len + b[4].iov_len

\* iovecs_length<iovecs_len_ak>(iovecs)
RECURSIVE iovecs_length(_, _)
iovecs_length(iovecs, iovecs_len_ak) ==
    IF iovecs_len_ak = 0 THEN 0
    ELSE iovecs_length(iovecs, iovecs_len_ak - 1) + iovecs[iovecs_len_ak - 1].iov_len

\* iovecs_memcpy<iovecs_len_ak>(iovecs, output): what output holds afterwards.
RECURSIVE iovecs_memcpy(_, _)
iovecs_memcpy(iovecs, iovecs_len_ak) ==
    IF iovecs_len_ak = 0 THEN <<>>
    ELSE iovecs_memcpy(iovecs, iovecs_len_ak - 1) \o IovecBytes(iovecs[iovecs_len_ak - 1])

\* The caller's iovec array and output buffer before any call.
ReplyInit ==
    /\ buffers = [i \in 0 .. iovecs_for_content_k - 1 |-> Iovec(<<>>, 0)]
    /\ reply_op = "init"
    /\ reply_ret = 0
    /\ reply_in = [request_id |-> <<>>, body |-> <<>>, append_comma |-> FALSE]
    /\ output = <<>>

\* fill_with_content(buffers, request_id, body, append_comma); the caller starts
\* every reply with an empty output buffer.
fill_with_content ==
    \E request_id \in RequestIds, body \in Bodies, append_comma \in BOOLEAN :
        /\ buffers' = ContentIovecs(request_id, body, append_comma)
        /\ reply_ret' = ContentLength(buffers')
        /\ reply_in' = [request_id |-> request_id, body |-> body,
                        append_comma |-> append_comma]
        /\ reply_op' = "fill_with_content"
        /\ output' = <<>>

\* The caller joins a filled reply: iovecs_length<5>(buffers), then
\* iovecs_memcpy<5>(buffers, output).
join_content ==
    /\ reply_op = "fill_with_content"
    /\ reply_ret' = iovecs_length(buffers, iovecs_for_content_k)
    /\ output' = iovecs_memcpy(buffers, iovecs_for_content_k)
    /\ reply_op' = "join_content"
    /\ UNCHANGED <<buffers, reply_in>>

\* R"(,"error":{"code":)"
error_code_separator ==
    << ",", "\"", "e", "r", "r", "o", "r", "\"", ":", "{", "\"", "c", "o", "d", "e",
       "\"", ":" >>

\* R"(,"message":")"
error_message_separator ==
    << ",", "\"", "m", "e", "s", "s", "a", "g", "e", "\"", ":", "\"" >>

\* R"("}},)"
error_protocol_suffix == << "\"", "}", "}", "," >>

\* buffers[0].iov_len = 22; in fill_with_error
ErrorPrefixLen == 22
\* buffers[2].iov_len = 17;
ErrorCodeSeparatorLen == 17

\* A message separator length that is one byte short.
ErrorMessageSeparatorLen_Short == 12 - 1

\* buffers[4].iov_len = 12;
ErrorMessageSeparatorLen == 12

\* The error codes and messages the caller passes.
MethodNotFoundCode == << "-", "3", "2", "6", "0", "1" >>

MethodNotFound ==
    << "M", "e", "t", "h", "o", "d", " ", "n", "o", "t", " ", "f", "o", "u", "n", "d" >>

ErrorCodes == { <<>>, MethodNotFoundCode, << "-", "3", "2", "7", "0", "0" >> }

ErrorMessages == Texts({"a", "b"}, MaxMessageLen) \cup {MethodNotFound}

\* The seven iovecs fill_with_error writes.
ErrorIovecs(request_id, error_code, error_message, append_comma) ==
    [i \in 0 .. iovecs_for_error_k - 1 |->
        CASE i = 0 -> Iovec(response_protocol_prefix_k, ErrorPrefixLen)
          [] i = 1 -> Iovec(request_id, Len(request_id))
          [] i = 2 -> Iovec(error_code_separator, ErrorCodeSeparatorLen)
          [] i = 3 -> Iovec(error_code, Len(error_code))
          [] i = 4 -> Iovec(error_message_separator, ErrorMessageSeparatorLen)
          [] i = 5 -> Iovec(error_message, Len(error_message))
          [] OTHER -> Iovec(error_protocol_suffix, 3 + BoolToSize(append_comma))]

\* The value fill_with_error returns: 22 + request_id.size() + 17 + error_code.size()
\* + 12 + error_message.size() + 3 + append_comma.
ErrorLength(request_id, error_code, error_message, append_comma) ==
    22 + Len(request_id) + 17 + Len(error_code) + 12 + Len(error_message) + 3
        + BoolToSize(append_comma)

\* The caller's iovec array before any call.
ErrorInit ==
    /\ error_buffers = [i \in 0 .. iovecs_for_error_k - 1 |-> Iovec(<<>>, 0)]
    /\ error_op = "init"
    /\ error_ret = 0
    /\ error_in = [request_id |-> <<>>, error_code |-> <<>>, error_message |-> <<>>,
                   append_comma |-> FALSE]

\* fill_with_error(buffers, request_id, error_code, error_message, append_comma)
fill_with_error ==
    \E request_id \in RequestIds, error_code \in ErrorCodes,
       error_message \in ErrorMessages, append_comma \in BOOLEAN :
        /\ error_buffers' = ErrorIovecs(request_id, error_code, error_message, append_comma)
        /\ error_ret' = ErrorLength(request_id, error_code, error_message, append_comma)
        /\ error_in' = [request_id |-> request_id, error_code |-> error_code,
                        error_message |-> error_message, append_comma |-> append_comma]
        /\ error_op' = "fill_with_error"

\* ------------------------------------------------------------- HTTP header

\* "HTTP/1.1 200 OK\r\nContent-Length:          \r\nContent-Type: application/json\r\n\r\n"
http_header_k ==
    << "H", "T", "T", "P", "/", "1", ".", "1", " ", "2", "0", "0", " ", "O", "K", "\r",
       "\n", "C", "o", "n", "t", "e", "n", "t", "-", "L", "e", "n", "g", "t", "h", ":",
       " ", " ", " ", " ", " ", " ", " ", " ", " ", " ", "\r", "\n", "C", "o", "n", "t",
       "e", "n", "t", "-", "T", "y", "p", "e", ":", " ", "a", "p", "p", "l", "i", "c",
       "a", "t", "i", "o", "n", "/", "j", "s", "o", "n", "\r", "\n", "\r", "\n" >>

\* A buffer holding a copy of the first http_header_size_k bytes of the template.
HeaderCopy == [i \in 0 .. http_header_size_k - 1 |-> http_header_k[i + 1]]

\* The character of one decimal digit.
DigitChar(d) == << "0", "1", "2", "3", "4", "5", "6", "7", "8", "9" >>[d + 1]

\* Decimal digits written least significant first.
RECURSIVE ToChars_Reversed(_)
ToChars_Reversed(value) ==
    IF value < 10 THEN << DigitChar(value) >>
    ELSE << DigitChar(value % 10) >> \o ToChars_Reversed(value \div 10)

\* The characters std::to_chars produces for an unsigned value: plain decimal, most
\* significant digit first, no sign, no padding.
RECURSIVE ToChars(_)
ToChars(value) ==
    IF value < 10 THEN << DigitChar(value) >>
    ELSE ToChars(value \div 10) \o << DigitChar(value % 10) >>

\* to_chars succeeds when the digits fit into [first, last).
ToCharsFits(value) == Len(ToChars(value)) <= http_header_length_capacity_k

\* The buffer with chars written from the field offset on, as far as the field goes.
Written(buffer, chars) ==
    [i \in DOMAIN buffer |->
        IF /\ i >= http_header_length_offset_k
           /\ i < http_header_length_offset_k + http_header_length_capacity_k
           /\ i - http_header_length_offset_k < Len(chars)
        THEN chars[i - http_header_length_offset_k + 1]
        ELSE buffer[i]]

\* The buffers std::to_chars may leave behind.  On success the digits are in place;
\* on value_too_large the content of [first, last) is unspecified: nothing written,
\* or the digits that fit.
ToCharsOutcomes(buffer, value) ==
    IF ToCharsFits(value) THEN { Written(buffer, ToChars(value)) }
    ELSE { buffer, Written(buffer, ToChars(value)) }

\* The content lengths passed: the short ones, the example, the longest that fits,
\* the shortest that does not, and the largest value of the model's integers.
ContentLengths ==
    (0 .. MaxSmallLength) \cup {123, 999999999, 1000000000, 2147483647}

HeaderInit ==
    /\ headers = HeaderCopy
    /\ header_op = "init"
    /\ header_ret = TRUE
    /\ header_in = 0
    /\ header_was = HeaderCopy
    /\ header_failed = FALSE

\* set_http_content_length(headers, content_len)
set_http_content_length ==
    \E content_len \in ContentLengths :
        /\ headers' \in ToCharsOutcomes(headers, content_len)
        /\ header_ret' = ToCharsFits(content_len)
        /\ header_in' = content_len
        /\ header_was' = headers
        /\ header_failed' = (header_failed \/ ~ToCharsFits(content_len))
        /\ header_op' = "set_http_content_length"

\* ---------------------------------------------------------------- array_gt

\* nullptr
NullAddress == 0

\* What std::malloc and std::realloc may return on success: realloc may grow the
\* block in place or move it.
Addresses == {1, 2}

\* The values of element_at that are stored.
ArrayElements == {1, 2}

\* Memory that was allocated and default-constructed, never assigned.
Unassigned == 0

\* element_at* elements_{}; std::size_t count_{}; std::size_t capacity_{};
ArrayInit ==
    /\ array_elements_ = NullAddress
    /\ array_count_ = 0
    /\ array_capacity_ = 0
    /\ array_memory = <<>>
    /\ array_op = "init"
    /\ array_ret = TRUE
    /\ array_arg = 0
    /\ array_src = <<>>

\* A grown block that does not carry the old content over.
ReservedMemory_Fresh(n) == [i \in 0 .. n - 1 |-> Unassigned]

\* The block after a successful malloc or realloc to n elements: realloc carries
\* the old capacity_ elements over, the elements from capacity_ on are
\* default-constructed.
ReservedMemory(n) ==
    [i \in 0 .. n - 1 |-> IF i < array_capacity_ THEN array_memory[i] ELSE Unassigned]

\* A failed allocation that loses the block.
FailedReserve_Null ==
    [ok |-> FALSE, elements |-> NullAddress, capacity |-> array_capacity_,
     memory |-> array_memory, op |-> "reserve_failed"]

\* if (!ptr) return false; before elements_ or capacity_ is assigned.
FailedReserve ==
    [ok |-> FALSE, elements |-> array_elements_, capacity |-> array_capacity_,
     memory |-> array_memory, op |-> "reserve_failed"]

\* The outcomes of reserve(n): the result and the fields it leaves.
ReserveOutcomes(n) ==
    IF n <= array_capacity_
    THEN { [ok |-> TRUE, elements |-> array_elements_, capacity |-> array_capacity_,
            memory |-> array_memory, op |-> "reserve_kept"] }
    ELSE { FailedReserve }
         \cup { [ok |-> TRUE, elements |-> ptr, capacity |-> n,
                 memory |-> ReservedMemory(n), op |-> "reserve"] : ptr \in Addresses }

\* bool reserve(std::size_t n)
array_reserve ==
    \E n \in 0 .. MaxArrayCapacity : \E r \in ReserveOutcomes(n) :
        /\ array_elements_' = r.elements
        /\ array_capacity_' = r.capacity
        /\ array_memory' = r.memory
        /\ array_op' = r.op
        /\ array_ret' = r.ok
        /\ array_arg' = n
        /\ array_src' = <<>>
        /\ UNCHANGED array_count_

\* void reset()
array_reset ==
    /\ array_elements_' = NullAddress
    /\ array_capacity_' = 0
    /\ array_count_' = 0
    /\ array_memory' = <<>>
    /\ array_op' = "reset"
    /\ array_arg' = 0
    /\ array_src' = <<>>
    /\ UNCHANGED array_ret

\* void push_back_reserved(element_at element), with room for the element.
push_back_reserved ==
    /\ array_count_ < array_capacity_
    /\ \E element \in ArrayElements :
        /\ array_memory' = [array_memory EXCEPT ![array_count_] = element]
        /\ array_src' = <<element>>
    /\ array_count_' = array_count_ + 1
    /\ array_op' = "push_back_reserved"
    /\ array_arg' = 1
    /\ UNCHANGED <<array_elements_, array_capacity_, array_ret>>

\* void pop_back(std::size_t n = 1), with at least n elements stored.
pop_back ==
    \E n \in 1 .. array_count_ :
        /\ array_count_' = array_count_ - n
        /\ array_op' = "pop_back"
        /\ array_arg' = n
        /\ array_src' = <<>>
        /\ UNCHANGED <<array_elements_, array_capacity_, array_memory, array_ret>>

\* An append that copies to begin() instead of end().
AppendedMemory_AtBegin(memory, src) ==
    [i \in DOMAIN memory |-> IF i < Len(src) THEN src[i + 1] ELSE memory[i]]

\* std::memcpy(end(), elements, n * sizeof(element_at));
AppendedMemory(memory, src) ==
    [i \in DOMAIN memory |->
        IF i >= array_count_ /\ i < array_count_ + Len(src)
        THEN src[i - array_count_ + 1] ELSE memory[i]]

\* The element sequences passed to append_n.
Sources == UNION { [1 .. n -> ArrayElements] : n \in 0 .. MaxArrayCapacity }

\* bool append_n(element_at const* elements, std::size_t n); copying no element to
\* a null end() is left out.
append_n ==
    \E src \in Sources : \E r \in ReserveOutcomes(array_count_ + Len(src)) :
        /\ array_count_ + Len(src) <= MaxArrayCapacity
        /\ Len(src) >= 1 \/ array_elements_ # NullAddress
        /\ array_elements_' = r.elements
        /\ array_capacity_' = r.capacity
        /\ IF r.ok
           THEN /\ array_memory' = AppendedMemory(r.memory, src)
                /\ array_count_' = array_count_ + Len(src)
                /\ array_op' = "append_n"
           ELSE /\ array_memory' = r.memory
                /\ array_count_' = array_count_
                /\ array_op' = "append_n_failed"
        /\ array_ret' = r.ok
        /\ array_arg' = Len(src)
        /\ array_src' = src

\* --------------------------------------------------------------- buffer_gt

\* The addresses malloc may return to the Buffer.
Blocks == 1 .. MaxBlocks

\* element_at* elements_{}; std::size_t capacity_{};
BufferInit ==
    /\ buffer_elements_ = NullAddress
    /\ buffer_capacity_ = 0
    /\ buffer_heap = {}
    /\ buffer_freed = {}
    /\ buffer_op = "init"
    /\ buffer_ret = TRUE
    /\ buffer_arg = 0

\* bool resize(std::size_t n): elements_ takes the result of malloc before it is
\* tested, and the block held before is not freed.
resize ==
    /\ buffer_op # "destroyed"
    /\ \E n \in 1 .. MaxBufferSize :
        /\ \/ \E ptr \in Blocks \ (buffer_heap \cup buffer_freed) :
                /\ buffer_elements_' = ptr
                /\ buffer_heap' = buffer_heap \cup {ptr}
                /\ buffer_capacity_' = n
                /\ buffer_ret' = TRUE
                /\ buffer_op' = "resize"
           \/ /\ buffer_elements_' = NullAddress
              /\ buffer_ret' = FALSE
              /\ buffer_op' = "resize_failed"
              /\ UNCHANGED <<buffer_heap, buffer_capacity_>>
        /\ buffer_arg' = n
    /\ UNCHANGED buffer_freed

\* ~buffer_gt(): std::free(elements_); elements_ = nullptr;
destroy ==
    /\ buffer_op # "destroyed"
    /\ buffer_heap' = buffer_heap \ {buffer_elements_}
    /\ buffer_freed' = IF buffer_elements_ = NullAddress THEN buffer_freed
                       ELSE buffer_freed \cup {buffer_elements_}
    /\ buffer_elements_' = NullAddress
    /\ buffer_op' = "destroyed"
    /\ buffer_arg' = 0
    /\ UNCHANGED <<buffer_capacity_, buffer_ret>>

\* ----------------------------------------------------------- specifications

Init == RingInit /\ PoolInit /\ ReplyInit /\ ErrorInit /\ HeaderInit /\ ArrayInit
        /\ BufferInit

RingNext ==
    \/ alloc
        /\ UNCHANGED <<pool_vars, reply_vars, error_vars, header_vars, array_vars, buffer_vars>>
    \/ drop_tail
        /\ UNCHANGED <<pool_vars, reply_vars, error_vars, header_vars, array_vars, buffer_vars>>
    \/ push_ahead
        /\ UNCHANGED <<pool_vars, reply_vars, error_vars, header_vars, array_vars, buffer_vars>>
    \/ poll
        /\ UNCHANGED <<pool_vars, reply_vars, error_vars, header_vars, array_vars, buffer_vars>>
    \/ tail
        /\ UNCHANGED <<pool_vars, reply_vars, error_vars, header_vars, array_vars, buffer_vars>>
    \/ head
        /\ UNCHANGED <<pool_vars, reply_vars, error_vars, header_vars, array_vars, buffer_vars>>
    \/ skip_turn
        /\ UNCHANGED <<pool_vars, reply_vars, error_vars, header_vars, array_vars, buffer_vars>>

PoolNext ==
    \/ reserve
        /\ UNCHANGED <<ring_vars, reply_vars, error_vars, header_vars, array_vars, buffer_vars>>
    \/ pool_alloc
        /\ UNCHANGED <<ring_vars, reply_vars, error_vars, header_vars, array_vars, buffer_vars>>
    \/ release
        /\ UNCHANGED <<ring_vars, reply_vars, error_vars, header_vars, array_vars, buffer_vars>>

ReplyNext ==
    \/ fill_with_content
        /\ UNCHANGED <<ring_vars, pool_vars, error_vars, header_vars, array_vars, buffer_vars>>
    \/ join_content
        /\ UNCHANGED <<ring_vars, pool_vars, error_vars, header_vars, array_vars, buffer_vars>>

ErrorNext ==
    \/ fill_with_error
        /\ UNCHANGED <<ring_vars, pool_vars, reply_vars, header_vars, array_vars, buffer_vars>>

HeaderNext ==
    \/ set_http_content_length
        /\ UNCHANGED <<ring_vars, pool_vars, reply_vars, error_vars, array_vars, buffer_vars>>

ArrayNext ==
    \/ array_reserve
        /\ UNCHANGED <<ring_vars, pool_vars, reply_vars, error_vars, header_vars, buffer_vars>>
    \/ array_reset
        /\ UNCHANGED <<ring_vars, pool_vars, reply_vars, error_vars, header_vars, buffer_vars>>
    \/ push_back_reserved
        /\ UNCHANGED <<ring_vars, pool_vars, reply_vars, error_vars, header_vars, buffer_vars>>
    \/ pop_back
        /\ UNCHANGED <<ring_vars, pool_vars, reply_vars, error_vars, header_vars, buffer_vars>>
    \/ append_n
        /\ UNCHANGED <<ring_vars, pool_vars, reply_vars, error_vars, header_vars, buffer_vars>>

BufferNext ==
    \/ resize
        /\ UNCHANGED <<ring_vars, pool_vars, reply_vars, error_vars, header_vars, array_vars>>
    \/ destroy
        /\ UNCHANGED <<ring_vars, pool_vars, reply_vars, error_vars, header_vars, array_vars>>

\* One worker drives one ring.
RingSpec == Init /\ [][RingNext]_vars

\* One owner drives one pool.
PoolSpec == Init /\ [][PoolNext]_vars

\* The encoder's functions, called with every argument in the bounds.
ReplySpec == Init /\ [][ReplyNext]_vars

\* fill_with_error, called with every argument in the bounds.
ErrorSpec == Init /\ [][ErrorNext]_vars

\* set_http_content_length, called again and again on one header buffer.
HeaderSpec == Init /\ [][HeaderNext]_vars

\* One owner calls the methods of one Array in any order.
ArraySpec == Init /\ [][ArrayNext]_vars

\* One owner resizes one Buffer any number of times and then destroys it.
BufferSpec == Init /\ [][BufferNext]_vars

\* ------------------------------------------------------------------- claims

\* The slots that hold a connection: count_ slots from idx_oldest_, modulo capacity_.
LiveSlots ==
    { (idx_oldest_ + k) % capacity_ : k \in 0 .. count_ - 1 }

\* The slot that holds the newest connection of a non-empty ring.
NewestSlot == (idx_oldest_ + count_ - 1) % capacity_

\* The slot the last drop_tail() evicted.
EvictedSlot == (idx_oldest_ + capacity_ - 1) % capacity_

\* How many insertions after the oldest connection slot s was filled.
Position(s) == (s + capacity_ - idx_oldest_) % capacity_

\* The live slot that follows live slot s in insertion order, the oldest after the
\* newest.
NextLive(s) == IF s = NewestSlot THEN idx_oldest_ ELSE (s + 1) % capacity_

\* C1: after count_ = k >= 1 consecutive poll() calls with no push_ahead/drop_tail
\* in between, the k calls have returned the k live slots, each once, in insertion
\* order starting from the slot the cursor was at before the first of them and
\* wrapping from the newest slot to the oldest.
C1_RoundRobinFairness ==
    (capacity_ > 0 /\ count_ >= 1 /\ Len(cycle) = count_) =>
        /\ cycle[1].from \in LiveSlots
        /\ \A i \in 1 .. count_ :
              cycle[i].got = (idx_oldest_ + ((Position(cycle[1].from) + i - 1) % count_)) % capacity_

\* C2 as stated: after a drop_tail() that found the poll cursor on the oldest slot,
\* the cursor is not the index of the evicted slot, and it is on a live slot or, when
\* the ring became empty, on the new idx_oldest_.
C2_EvictionSafety ==
    (ring_op = "drop_tail" /\ cursor_was = EvictedSlot) =>
        /\ idx_to_poll_ # EvictedSlot
        /\ IF count_ = 0 THEN idx_to_poll_ = idx_oldest_ ELSE idx_to_poll_ \in LiveSlots

\* C2 as amended: the same, with the cursor off the evicted slot's index exactly
\* when the ring has more than one slot (a ring of capacity 1 has only index 0).
C2_EvictionSafetyAmended ==
    (ring_op = "drop_tail" /\ cursor_was = EvictedSlot) =>
        /\ (idx_to_poll_ # EvictedSlot) <=> (capacity_ >= 2)
        /\ IF count_ = 0 THEN idx_to_poll_ = idx_oldest_ ELSE idx_to_poll_ \in LiveSlots

\* A drop_tail() found the cursor on the oldest slot of a ring of two or more slots
\* and left connections behind.
C2_Witness ==
    /\ ring_op = "drop_tail"
    /\ cursor_was = EvictedSlot
    /\ capacity_ >= 2
    /\ count_ >= 1

\* C3: the poll cursor is the index of a live slot, or idx_oldest_ when the ring is
\* empty.
C3_PollCursorLive ==
    capacity_ > 0 =>
        IF count_ = 0 THEN idx_to_poll_ = idx_oldest_ ELSE idx_to_poll_ \in LiveSlots

\* C4: 0 <= count <= capacity, and idx_oldest, idx_newest and the poll cursor are
\* indices of the ring.
C4_RingBounds ==
    capacity_ > 0 =>
        /\ count_ \in 0 .. capacity_
        /\ idx_oldest_ \in 0 .. capacity_ - 1
        /\ idx_newest_ \in 0 .. capacity_ - 1
        /\ idx_to_poll_ \in 0 .. capacity_ - 1

\* A full ring of several slots whose idx_newest_ has wrapped, just polled.
C4_Witness ==
    /\ ring_op = "poll"
    /\ capacity_ >= 2
    /\ count_ = capacity_
    /\ idx_oldest_ > 0

\* C5: poll() returns the record the cursor was on before the call and leaves the
\* cursor on the next live slot in insertion order.
C5_PollReturnsCursorSlot ==
    ring_op = "poll" =>
        /\ ring_ret = cursor_was
        /\ idx_to_poll_ = NextLive(cursor_was)

\* C6: drop_tail() returns the descriptor of the slot at idx_oldest_, writes the
\* sentinel over that descriptor only (the slot's other fields and every other
\* slot keep their values), advances idx_oldest_ by one modulo capacity_,
\* decrements count_ and leaves idx_newest_ alone.
C6_DropTailEffect ==
    [][ring_op' = "drop_tail" =>
          /\ ring_ret' = circle_[idx_oldest_].descriptor
          /\ DOMAIN circle_' = DOMAIN circle_
          /\ circle_'[idx_oldest_].descriptor = bad_descriptor_k
          /\ circle_'[idx_oldest_].skipped_cycles = circle_[idx_oldest_].skipped_cycles
          /\ circle_'[idx_oldest_].copies_count = circle_[idx_oldest_].copies_count
          /\ circle_'[idx_oldest_].iovecs_count = circle_[idx_oldest_].iovecs_count
          /\ \A i \in DOMAIN circle_ \ {idx_oldest_} : circle_'[i] = circle_[i]
          /\ idx_oldest_' = (idx_oldest_ + 1) % capacity_
          /\ count_' = count_ - 1
          /\ idx_newest_' = idx_newest_]_vars

\* A drop_tail() returned a connection's descriptor, left its counted skipped
\* turns in the evicted slot and left other connections in the ring.
C6_Witness ==
    /\ ring_op = "drop_tail"
    /\ ring_ret \in 1 .. MaxDescriptor
    /\ count_ >= 1
    /\ circle_[EvictedSlot].descriptor = bad_descriptor_k
    /\ circle_[EvictedSlot].skipped_cycles > 0

\* C7: push_ahead(d) leaves descriptor d and zeroed skipped_cycles, copies_count and
\* iovecs_count in the slot at idx_newest_, advances idx_newest_ by one modulo
\* capacity_, increments count_, and changes no other slot, idx_oldest_ or the
\* poll cursor.
C7_PushAheadEffect ==
    [][ring_op' = "push_ahead" =>
          /\ DOMAIN circle_' = DOMAIN circle_
          /\ circle_'[idx_newest_] = Connection(ring_arg', 0, 0, 0)
          /\ \A i \in DOMAIN circle_ \ {idx_newest_} : circle_'[i] = circle_[i]
          /\ idx_newest_' = (idx_newest_ + 1) % capacity_
          /\ count_' = count_ + 1
          /\ idx_oldest_' = idx_oldest_
          /\ idx_to_poll_' = idx_to_poll_]_vars

\* A push_ahead() has just written a slot below idx_oldest_: one that idx_oldest_
\* has passed, so it held a connection that was evicted.
C7_Witness ==
    /\ ring_op = "push_ahead"
    /\ idx_newest_ >= 1
    /\ idx_newest_ - 1 < idx_oldest_
    /\ count_ >= 2

\* C8: on a non-empty ring tail() returns the oldest live record and head() the
\* newest live record, and neither changes a cursor or the count.
C8_TailHead ==
    [][/\ ring_op' = "tail" =>
            /\ ring_ret' = idx_oldest_
            /\ UNCHANGED <<count_, idx_newest_, idx_oldest_, idx_to_poll_>>
       /\ ring_op' = "head" =>
            /\ ring_ret' = NewestSlot
            /\ UNCHANGED <<count_, idx_newest_, idx_oldest_, idx_to_poll_>>]_vars

\* C9: without a release, the first capacity alloc() calls after reserve() succeed
\* and the next returns null and changes nothing in the pool; an alloc() that
\* follows a release(p) returns p; the capacity is set by reserve() only.
C9_PoolExhaustionAndReuse ==
    [][/\ (pool_op' = "alloc" /\ ~released_any' /\ alloc_calls' <= pool_capacity_) =>
            pool_ptr' # NullPtr
       /\ (pool_op' = "alloc" /\ ~released_any' /\ alloc_calls' = pool_capacity_ + 1) =>
            /\ pool_ptr' = NullPtr
            /\ UNCHANGED <<pool_capacity_, free_count_, elements_, free_offsets_>>
       /\ (pool_op = "release" /\ pool_op' = "alloc") =>
            /\ pool_ptr' # NullPtr
            /\ pool_ptr' = pool_ptr
       /\ pool_op' # "reserve" => pool_capacity_' = pool_capacity_]_vars

\* A pool of several elements was exhausted, alloc() returned nullptr, an element
\* was released, and alloc() handed it out again.
C9_Witness ==
    /\ pool_op = "alloc"
    /\ pool_ptr # NullPtr
    /\ exhausted
    /\ released_any
    /\ pool_capacity_ >= 2
    /\ free_count_ = 0

\* A JSON string: the characters between double quotes.
Quoted(chars) == <<"\"">> \o chars \o <<"\"">>

\* {"jsonrpc":"2.0","id": id ,"result": body } and a comma when one is asked for.
SuccessEnvelope(id, body, comma) ==
    <<"{">> \o Quoted(<<"j", "s", "o", "n", "r", "p", "c">>) \o <<":">>
        \o Quoted(<<"2", ".", "0">>) \o <<",">> \o Quoted(<<"i", "d">>) \o <<":">>
        \o id \o <<",">> \o Quoted(<<"r", "e", "s", "u", "l", "t">>) \o <<":">>
        \o body \o <<"}">> \o (IF comma THEN <<",">> ELSE <<>>)

\* C10: fill_with_content fills five ranges whose concatenation is the success
\* envelope of its arguments, and returns the length of that concatenation, which
\* is the sum of the five range lengths (iovecs_length<5>).
C10_SuccessEnvelope ==
    LET expected == SuccessEnvelope(reply_in.request_id, reply_in.body,
                                    reply_in.append_comma)
    IN  /\ reply_op = "fill_with_content" =>
            /\ DOMAIN buffers = 0 .. 4
            /\ iovecs_memcpy(buffers, 5) = expected
            /\ reply_ret = Len(expected)
            /\ reply_ret = iovecs_length(buffers, 5)
        /\ reply_op = "join_content" =>
            /\ output = expected
            /\ reply_ret = Len(expected)

\* The reply to request 7 with body 19, followed by a comma, was filled.
C10_Witness ==
    /\ reply_op = "fill_with_content"
    /\ reply_in.request_id = <<"7">>
    /\ reply_in.body = <<"1", "9">>
    /\ reply_in.append_comma

\* {"jsonrpc":"2.0","id": id ,"error":{"code": code ,"message":" message "}} and a
\* comma when one is asked for.
ErrorEnvelope(id, code, message, comma) ==
    <<"{">> \o Quoted(<<"j", "s", "o", "n", "r", "p", "c">>) \o <<":">>
        \o Quoted(<<"2", ".", "0">>) \o <<",">> \o Quoted(<<"i", "d">>) \o <<":">>
        \o id \o <<",">> \o Quoted(<<"e", "r", "r", "o", "r">>) \o <<":", "{">>
        \o Quoted(<<"c", "o", "d", "e">>) \o <<":">> \o code \o <<",">>
        \o Quoted(<<"m", "e", "s", "s", "a", "g", "e">>) \o <<":">> \o Quoted(message)
        \o <<"}", "}">> \o (IF comma THEN <<",">> ELSE <<>>)

\* {"jsonrpc":"2.0","id":1,"error":{"code":-32601,"message":"Method not found"}}
MethodNotFoundReply ==
    << "{", "\"", "j", "s", "o", "n", "r", "p", "c", "\"", ":", "\"", "2", ".", "0",
       "\"", ",", "\"", "i", "d", "\"", ":", "1", ",", "\"", "e", "r", "r", "o", "r",
       "\"", ":", "{", "\"", "c", "o", "d", "e", "\"", ":", "-", "3", "2", "6", "0", "1",
       ",", "\"", "m", "e", "s", "s", "a", "g", "e", "\"", ":", "\"", "M", "e", "t", "h",
       "o", "d", " ", "n", "o", "t", " ", "f", "o", "u", "n", "d", "\"", "}", "}" >>

\* C11: fill_with_error fills seven ranges whose concatenation is the error envelope
\* of its arguments, and returns the sum of the range lengths; for id 1, code
\* -32601 and message "Method not found" the concatenation is MethodNotFoundReply.
C11_ErrorEnvelope ==
    error_op = "fill_with_error" =>
        LET joined == iovecs_memcpy(error_buffers, 7)
        IN  /\ DOMAIN error_buffers = 0 .. 6
            /\ joined = ErrorEnvelope(error_in.request_id, error_in.error_code,
                                      error_in.error_message, error_in.append_comma)
            /\ error_ret = iovecs_length(error_buffers, 7)
            /\ error_ret = Len(joined)
            /\ (/\ error_in.request_id = <<"1">>
                /\ error_in.error_code = <<"-", "3", "2", "6", "0", "1">>
                /\ error_in.error_message = MethodNotFound
                /\ ~error_in.append_comma) => joined = MethodNotFoundReply

\* The reply to request 1 with code -32601 and message "Method not found" was filled.
C11_Witness ==
    /\ error_op = "fill_with_error"
    /\ error_in.request_id = <<"1">>
    /\ error_in.error_code = MethodNotFoundCode
    /\ error_in.error_message = MethodNotFound
    /\ ~error_in.append_comma
    /\ iovecs_memcpy(error_buffers, 7) = MethodNotFoundReply

\* The 9-byte length field of a header buffer, as a sequence.
LengthField(buffer) ==
    [i \in 1 .. http_header_length_capacity_k |-> buffer[http_header_length_offset_k + i - 1]]

\* The value of one digit character.
DigitValue(c) == CHOOSE d \in 0 .. 9 : DigitChar(d) = c

IsDigit(c) == \E d \in 0 .. 9 : DigitChar(d) = c

\* The number a decimal parser reads from the front of chars, stopping at the first
\* character that is not a digit; acc is the value read so far.
RECURSIVE Decode(_, _)
Decode(chars, acc) ==
    IF chars = <<>> \/ ~IsDigit(Head(chars)) THEN acc
    ELSE Decode(Tail(chars), acc * 10 + DigitValue(Head(chars)))

\* The number of decimal digits of a value, counted without forming them.
RECURSIVE DigitCount(_)
DigitCount(value) == IF value < 10 THEN 1 ELSE 1 + DigitCount(value \div 10)

\* C12: on a fresh copy of the template set_http_content_length returns true exactly
\* for a length of at most 9 digits; on success the digits stand left-aligned at
\* offset 33, the rest of the field is spaces, no byte outside 33..41 differs from
\* the template, the header is 78 bytes and the field decodes to the length.
C12_HeaderPatch ==
    (header_op = "set_http_content_length" /\ header_was = HeaderCopy) =>
        /\ header_ret = (DigitCount(header_in) <= 9)
        /\ header_ret =>
            /\ DOMAIN headers = 0 .. 77
            /\ \A i \in 0 .. 77 : (i < 33 \/ i > 41) => headers[i] = http_header_k[i + 1]
            /\ \A i \in 33 .. 41 :
                IF i - 33 < DigitCount(header_in)
                THEN /\ IsDigit(headers[i])
                     /\ DigitValue(headers[i])
                            = (header_in \div (10 ^ (DigitCount(header_in) - 1 - (i - 33)))) % 10
                ELSE headers[i] = " "
            /\ Decode(LengthField(headers), 0) = header_in

\* Length 123 was patched into a fresh copy of the template.
C12_Witness ==
    /\ header_op = "set_http_content_length"
    /\ header_was = HeaderCopy
    /\ header_in = 123
    /\ header_ret
    /\ LengthField(headers) = << "1", "2", "3", " ", " ", " ", " ", " ", " " >>

\* {"jsonrpc":"2.0","id":7,"result":19}
Result19Reply ==
    << "{", "\"", "j", "s", "o", "n", "r", "p", "c", "\"", ":", "\"", "2", ".", "0",
       "\"", ",", "\"", "i", "d", "\"", ":", "7", ",", "\"", "r", "e", "s", "u", "l",
       "t", "\"", ":", "1", "9", "}" >>

\* Request id 7 and result body 19 were encoded without a trailing comma.
Encoded7And19 ==
    /\ reply_op \in {"fill_with_content", "join_content"}
    /\ reply_in.request_id = <<"7">>
    /\ reply_in.body = <<"1", "9">>
    /\ ~reply_in.append_comma

\* C13 as stated: id 7 and body 19 give {"jsonrpc":"2.0","id":7,"result":19} with a
\* reported total length of 38.
C13_ReportedLength38 ==
    Encoded7And19 =>
        /\ iovecs_memcpy(buffers, 5) = Result19Reply
        /\ reply_ret = 38

\* C13, amended: id 7 and body 19 give {"jsonrpc":"2.0","id":7,"result":19} with a
\* reported total length of 36, the number of bytes of that text.
C13_ReportedLength36 ==
    Encoded7And19 =>
        /\ iovecs_memcpy(buffers, 5) = Result19Reply
        /\ reply_ret = 36
        /\ Len(Result19Reply) = 36
        /\ reply_op = "join_content" => output = Result19Reply

\* The reply to request 7 with body 19 and no comma was filled and joined.
C13_Witness ==
    /\ Encoded7And19
    /\ reply_op = "join_content"
    /\ output = Result19Reply

\* The elements [0, size()) of the Array keep their values over the step.
StoredElementsKept ==
    \A i \in 0 .. array_count_ - 1 : array_memory'[i] = array_memory[i]

\* C14: a successful reserve(n) keeps size() and the elements [0, size()), makes
\* capacity max(old capacity, n) and changes nothing when n <= capacity; no call
\* but reset() lowers the capacity.
C14_ReservePreserves ==
    [][
        /\ (array_op' \in {"reserve", "reserve_kept"}) =>
            /\ array_ret'
            /\ array_count_' = array_count_
            /\ StoredElementsKept
            /\ array_capacity_' = IF array_arg' > array_capacity_
                                  THEN array_arg' ELSE array_capacity_
            /\ array_arg' <= array_capacity_ =>
                    UNCHANGED <<array_elements_, array_capacity_, array_memory>>
        /\ array_op' # "reset" => array_capacity_' >= array_capacity_
    ]_vars

\* A reserve moved an Array that stores elements into a larger block.
C14_Witness ==
    /\ array_op = "reserve"
    /\ array_ret
    /\ array_count_ >= 2
    /\ array_capacity_ = array_arg
    /\ array_memory[0] \in ArrayElements
    /\ array_memory[array_capacity_ - 1] = Unassigned

\* C15: a reserve(n) whose allocation fails returns false and leaves the data
\* pointer, size, capacity and elements as they were; append_n returns false only
\* when the allocation it needs fails, and then leaves the same fields unchanged.
C15_AllocationFailure ==
    [][
        /\ (array_op' \in {"reserve_failed", "append_n_failed"}) =>
            /\ ~array_ret'
            /\ UNCHANGED <<array_elements_, array_count_, array_capacity_, array_memory>>
        /\ array_op' = "reserve_failed" => array_arg' > array_capacity_
        /\ array_op' = "append_n_failed" => array_count_ + array_arg' > array_capacity_
        /\ (array_op' \in {"append_n", "append_n_failed"}
                /\ array_count_ + array_arg' <= array_capacity_) => array_ret'
    ]_vars

\* An append_n failed on an Array that stores elements in a block.
C15_Witness ==
    /\ array_op = "append_n_failed"
    /\ ~array_ret
    /\ array_elements_ # NullAddress
    /\ array_count_ >= 1
    /\ array_arg >= 1

\* C17: a successful append_n(src, n) on an Array of size s gives size s + n, keeps
\* the elements [0, s), makes the elements [s, s + n) equal to src in order, and
\* leaves size() <= capacity().
C17_AppendN ==
    [][array_op' = "append_n" =>
            /\ array_ret'
            /\ array_arg' = Len(array_src')
            /\ array_count_' = array_count_ + array_arg'
            /\ StoredElementsKept
            /\ \A i \in 0 .. array_arg' - 1 :
                    array_memory'[array_count_ + i] = array_src'[i + 1]
            /\ array_count_' <= array_capacity_'
            /\ DOMAIN array_memory' = 0 .. array_capacity_' - 1]_vars

\* Two different elements were appended behind an element already stored.
C17_Witness ==
    /\ array_op = "append_n"
    /\ array_ret
    /\ array_arg = 2
    /\ array_count_ = 3
    /\ array_src[1] # array_src[2]
    /\ array_memory[1] = array_src[1]
    /\ array_memory[2] = array_src[2]

\* C16: a Buffer resize(n) whose allocation fails returns false and leaves the data
\* pointer and the capacity as they were, also when the Buffer held a block.
C16_NoCorruptionOnFailure ==
    [][buffer_op' = "resize_failed" =>
            /\ ~buffer_ret'
            /\ UNCHANGED <<buffer_elements_, buffer_capacity_>>]_vars

\* C16, Pool: a reserve(n) whose allocation fails leaves the pool as it was.
C16_PoolReserveFailure ==
    [][pool_op' = "reserve_failed" =>
            UNCHANGED <<elements_, pool_capacity_, free_count_, free_offsets_>>]_vars

\* C16, ring: an alloc(n) whose allocation fails leaves the ring as it was.
C16_RingAllocFailure ==
    [][ring_op' = "alloc_failed" =>
            UNCHANGED <<circle_, capacity_, count_, idx_newest_, idx_oldest_,
                        idx_to_poll_>>]_vars

\* C18: after a successful reserve(n) free_count = capacity = n and the free-offset
\* stack holds each of 0 .. n-1 once; the k-th of the n alloc() calls that follow
\* returns the element at offset n - k, so the n elements are pairwise distinct.
C18_PoolInitialState ==
    /\ pool_op = "reserve" =>
            /\ free_count_ = pool_arg
            /\ pool_capacity_ = pool_arg
            /\ DOMAIN free_offsets_ = 0 .. pool_arg - 1
            /\ \A o \in 0 .. pool_arg - 1 :
                    Cardinality({i \in 0 .. pool_arg - 1 : free_offsets_[i] = o}) = 1
    /\ (pool_op = "alloc" /\ ~released_any /\ alloc_calls <= pool_capacity_) =>
            /\ pool_ptr = << pool_capacity_ - alloc_calls >>
            /\ held = (pool_capacity_ - alloc_calls) .. (pool_capacity_ - 1)
            /\ Cardinality(held) = alloc_calls

\* The last of three alloc() calls on a fresh pool of three returned offset 0.
C18_Witness ==
    /\ pool_op = "alloc"
    /\ ~released_any
    /\ pool_capacity_ = 3
    /\ alloc_calls = 3
    /\ pool_ptr = << 0 >>
    /\ held = {0, 1, 2}

\* C19: once the ring is allocated, every slot outside the live window, written
\* before or not, has the descriptor bad_descriptor_k, and every live slot has
\* another descriptor.
C19_DeadSlotsDetectable ==
    capacity_ > 0 =>
        \A i \in 0 .. capacity_ - 1 :
            IF i \in LiveSlots THEN circle_[i].descriptor # -1
            ELSE circle_[i].descriptor = -1

\* C20: a drop_tail() returns the oldest descriptor given to push_ahead and not yet
\* returned, so the i-th drop returns the i-th push; size() is the number of
\* pushes not yet dropped; idx_newest = (idx_oldest + size()) mod capacity while
\* the ring is not full.
C20_RingFifo ==
    [][
        /\ ring_op' = "drop_tail" =>
            /\ pending # <<>>
            /\ ring_ret' = Head(pending)
        /\ count_' = Len(pending')
        /\ (capacity_' > 0 /\ count_' < capacity_') =>
            idx_newest_' = (idx_oldest_' + count_') % capacity_'
    ]_vars

\* After the ring wrapped around, a drop_tail() returned a descriptor while a
\* different one, pushed later, stayed in the ring.
C20_Witness ==
    /\ ring_op = "drop_tail"
    /\ capacity_ >= 2
    /\ count_ >= 1
    /\ idx_oldest_ > idx_newest_
    /\ ring_ret # pending[1]
    /\ ring_ret \in 1 .. MaxDescriptor

\* The offsets on the free-offset stack: the entries free_offsets[0 .. free_count).
FreeOffsets == { free_offsets_[i] : i \in 0 .. free_count_ - 1 }

\* C21: with release called only on pointers alloc returned and not yet released,
\* the entries free_offsets[0 .. free_count) are pairwise distinct, disjoint from
\* the allocated offsets and cover 0 .. capacity-1 together with them,
\* 0 <= free_count <= capacity, and alloc never returns an allocated element.
C21_PoolPartition ==
    /\ [](elements_ =>
            /\ free_count_ >= 0
            /\ free_count_ <= pool_capacity_
            /\ Cardinality(FreeOffsets) = free_count_
            /\ FreeOffsets \cap held = {}
            /\ FreeOffsets \cup held = 0 .. pool_capacity_ - 1)
    /\ [][(pool_op' = "alloc" /\ pool_ptr' # <<>>) =>
            /\ pool_ptr'[1] \notin held
            /\ pool_ptr'[1] \in 0 .. pool_capacity_ - 1]_vars

\* After releases in an order other than the order of allocation, alloc() handed
\* out an element while another stayed allocated and another stayed free.
C21_Witness ==
    /\ pool_op = "alloc"
    /\ released_any
    /\ pool_capacity_ = 3
    /\ free_count_ = 1
    /\ held = {0, 2}
    /\ pool_ptr = << 0 >>
    /\ free_offsets_[0] = 1

\* C22: after any sequence of successful set_http_content_length calls on one
\* header buffer, the length field at offsets 33..41 decodes to the value of the
\* most recent call; no digit of an earlier, longer value is left in the field.
C22_RepeatedPatch ==
    (header_op = "set_http_content_length" /\ ~header_failed) =>
        /\ Decode(LengthField(headers), 0) = header_in
        /\ \A i \in 33 .. 41 : i - 33 >= DigitCount(header_in) => headers[i] = " "

\* C23: over any sequence of resize(n) calls on one Buffer and its destruction,
\* every block the Buffer allocated is freed once: a resize that replaces a block
\* releases it, so the Buffer's only unfreed block is the one it holds, and no
\* block is left unfreed after the destructor.
C23_BlockOwnership ==
    /\ buffer_op = "resize" => buffer_heap = {buffer_elements_}
    /\ buffer_op = "destroyed" => buffer_heap = {}
    /\ buffer_heap \cap buffer_freed = {}

====
